---- MODULE Spec2Model ----
(***************************************************************************)
(* A model of src/CSVs/csv_normalize.py: the field normalizer, the row     *)
(* transformers (rename, collapse, reorder), the normalization loop of     *)
(* do_csv_normalize and csv_sort.                                          *)
(*                                                                         *)
(* Text is modelled as a sequence of one-character strings, so that the    *)
(* regular expressions, str.rstrip/lstrip/replace, the csv writer and the  *)
(* lexicographic comparison of lines are computed character by character.  *)
(***************************************************************************)
EXTENDS Integers, Sequences, FiniteSets, TLC

VARIABLES
    \* one field through lines 140-152 (SpecField)
    column, fpc, normalized, renormalized, dated,
    \* one row through collapse_columns / reorder_columns_in_row (SpecRow)
    row, row_op, row_arg, row_result, rpc,
    \* do_csv_normalize and csv_sort (Spec, SpecSort)
    column_options, inp, index, kinds, written, out_file, reverse,
    sorted_file, pc

fieldVars == <<column, fpc, normalized, renormalized, dated>>
rowVars == <<row, row_op, row_arg, row_result, rpc>>
pipeVars == <<column_options, inp, index, kinds, written, out_file, reverse,
              sorted_file, pc>>
vars == <<fieldVars, rowVars, pipeVars>>

---------------------------------------------------------------------------
(* Bounds of the model.                                                    *)

\* longest field enumerated exhaustively over FieldAlphabet
MaxLen == 4
\* widest row given to collapse_columns / reorder_columns_in_row alone
MaxCols == 2
\* longest projection list given to reorder_columns_in_row alone
MaxProj == 2
\* most records the reader yields in one run of do_csv_normalize
MaxRows == 3
\* most lines of a file given to csv_sort alone
MaxLines == 5

---------------------------------------------------------------------------
(* Characters and strings.                                                 *)

NL == "\n"
CR == "\r"
QUOTE == "\""
COMMA == ","

Digits == {"0", "1", "2", "3", "4", "5", "6", "7", "8", "9"}

\* the characters of the model in ascending code point order
CharOrder ==
    << NL, CR, QUOTE, COMMA, "-", ".", "/",
       "0", "1", "2", "3", "4", "5", "6", "7", "8", "9",
       "A", "D", "F", "L", "N",
       "a", "b", "c", "d", "e", "h", "i", "l", "m", "n", "o", "r", "s", "t",
       "u", "z" >>

Ord(c) == CHOOSE i \in 1..Len(CharOrder) : CharOrder[i] = c

\* a < b for str: the first differing character decides, a proper prefix is smaller
RECURSIVE StrLess(_, _)
StrLess(a, b) ==
    IF b = <<>> THEN FALSE
    ELSE IF a = <<>> THEN TRUE
    ELSE IF Head(a) = Head(b) THEN StrLess(Tail(a), Tail(b))
    ELSE Ord(Head(a)) < Ord(Head(b))

\* str.rstrip(ch) for a single character ch
RECURSIVE RStrip(_, _)
RStrip(s, ch) ==
    IF s # <<>> /\ s[Len(s)] = ch THEN RStrip(SubSeq(s, 1, Len(s) - 1), ch) ELSE s

\* str.lstrip(ch) for a single character ch
RECURSIVE LStrip(_, _)
LStrip(s, ch) ==
    IF s # <<>> /\ Head(s) = ch THEN LStrip(Tail(s), ch) ELSE s

StartsWith(s, p) == Len(p) <= Len(s) /\ SubSeq(s, 1, Len(p)) = p

\* str.replace(old, new): every non-overlapping occurrence, left to right; an
\* empty old matches before every character and at the end
RECURSIVE ReplaceNonEmpty(_, _, _)
ReplaceNonEmpty(s, old, new) ==
    IF s = <<>> THEN <<>>
    ELSE IF StartsWith(s, old)
         THEN new \o ReplaceNonEmpty(SubSeq(s, Len(old) + 1, Len(s)), old, new)
         ELSE <<Head(s)>> \o ReplaceNonEmpty(Tail(s), old, new)

RECURSIVE ReplaceEmpty(_, _)
ReplaceEmpty(s, new) ==
    IF s = <<>> THEN new ELSE new \o <<Head(s)>> \o ReplaceEmpty(Tail(s), new)

Replace(s, old, new) ==
    IF old = <<>> THEN ReplaceEmpty(s, new) ELSE ReplaceNonEmpty(s, old, new)

AllDigits(s) == \A i \in 1..Len(s) : s[i] \in Digits

\* what a pattern ending in $ may have consumed of s: all of it, or all but a
\* final newline (re's $ also matches just before a newline that ends the string)
DollarCores(s) ==
    {s} \cup (IF s # <<>> /\ s[Len(s)] = NL THEN {SubSeq(s, 1, Len(s) - 1)} ELSE {})

---------------------------------------------------------------------------
(* normalize_date and the field normalization of do_csv_normalize.         *)

\* the groups (month, day, year) of ^(\d{1,2})\/(\d{1,2})\/(\d{4})$ on s
SlashGroups(s) ==
    { <<SubSeq(c, 1, p - 1), SubSeq(c, p + 1, q - 1), SubSeq(c, q + 1, Len(c))>> :
        <<c, p, q>> \in
          { t \in DollarCores(s) \X (1..Len(s)) \X (1..Len(s)) :
              LET c == t[1]  p == t[2]  q == t[3] IN
              /\ p < q /\ q < Len(c)
              /\ c[p] = "/" /\ c[q] = "/"
              /\ p - 1 \in 1..2 /\ AllDigits(SubSeq(c, 1, p - 1))
              /\ q - p - 1 \in 1..2 /\ AllDigits(SubSeq(c, p + 1, q - 1))
              /\ Len(c) - q = 4 /\ AllDigits(SubSeq(c, q + 1, Len(c))) } }

\* the groups (year, month, day) of ^(\d{4})\-(\d{1,2})\-(\d{1,2})$ on s
IsoGroups(s) ==
    { <<SubSeq(c, 1, p - 1), SubSeq(c, p + 1, q - 1), SubSeq(c, q + 1, Len(c))>> :
        <<c, p, q>> \in
          { t \in DollarCores(s) \X (1..Len(s)) \X (1..Len(s)) :
              LET c == t[1]  p == t[2]  q == t[3] IN
              /\ p < q /\ q < Len(c)
              /\ c[p] = "-" /\ c[q] = "-"
              /\ p - 1 = 4 /\ AllDigits(SubSeq(c, 1, p - 1))
              /\ q - p - 1 \in 1..2 /\ AllDigits(SubSeq(c, p + 1, q - 1))
              /\ Len(c) - q \in 1..2 /\ AllDigits(SubSeq(c, q + 1, Len(c))) } }

normalize_date(col) ==
    IF SlashGroups(col) # {}
    THEN LET g == CHOOSE g \in SlashGroups(col) : TRUE
             month == LStrip(g[1], "0")
             day == LStrip(g[2], "0")
             year == SubSeq(g[3], 3, Len(g[3]))
         IN  month \o <<"/">> \o day \o <<"/">> \o year
    ELSE IF IsoGroups(col) # {}
    THEN LET g == CHOOSE g \in IsoGroups(col) : TRUE
             year == SubSeq(g[1], 3, Len(g[1]))
             month == LStrip(g[2], "0")
             day == LStrip(g[3], "0")
         IN  month \o <<"/">> \o day \o <<"/">> \o year
    ELSE col

\* ^\-{0,1}\d{1,}\.\d{0,}0$ finds a match in s
MatchDecimal(s) ==
    \E c \in DollarCores(s) :
        /\ c # <<>>
        /\ LET b == IF c[1] = "-" THEN 2 ELSE 1 IN
           \E p \in (b + 1)..(Len(c) - 1) :
               /\ c[p] = "."
               /\ AllDigits(SubSeq(c, b, p - 1))
               /\ AllDigits(SubSeq(c, p + 1, Len(c)))
               /\ c[Len(c)] = "0"

\* ^\-0$ finds a match in s
MatchNegZero(s) == \E c \in DollarCores(s) : c = <<"-", "0">>

\* "1.0" in place of "1": only the trailing zeros are omitted
DecimalTrim_KeepPoint(col) ==
    IF MatchDecimal(col) THEN RStrip(col, "0") ELSE col

\* one trailing zero is omitted instead of all of them
DecimalTrim_OneZero(col) ==
    IF MatchDecimal(col) /\ col[Len(col)] = "0"
    THEN RStrip(SubSeq(col, 1, Len(col) - 1), ".")
    ELSE col

\* lines 140-144: omit any trailing zeros, and then any trailing decimal point
DecimalTrim(col) ==
    IF MatchDecimal(col) THEN RStrip(RStrip(col, "0"), ".") ELSE col

\* lines 140-152: what the loop over a data row appends for one column
NormalizeColumn(col) ==
    LET trimmed == DecimalTrim(col) IN
    IF MatchNegZero(trimmed) THEN <<"0">> ELSE normalize_date(trimmed)

---------------------------------------------------------------------------
(* The row transformers. A call returns [err, row]: err is TRUE when the   *)
(* call raised IndexError, and row is then of no account.                  *)

IndexError == [err |-> TRUE, row |-> <<>>]
Returns(r) == [err |-> FALSE, row |-> r]

\* list subscription row[i] succeeds: i counts from 0, or from the end when negative
InRange(r, i) == -Len(r) <= i /\ i < Len(r)

\* the position (from 1) that row[i] denotes
Pos(r, i) == IF i >= 0 THEN i + 1 ELSE Len(r) + i + 1

\* lines 51-55
RECURSIVE reorder_columns_in_row(_, _)
reorder_columns_in_row(r, arg_new_columns) ==
    IF arg_new_columns = <<>> THEN Returns(<<>>)
    ELSE IF ~InRange(r, Head(arg_new_columns)) THEN IndexError
    ELSE LET rest == reorder_columns_in_row(r, Tail(arg_new_columns)) IN
         IF rest.err THEN IndexError
         ELSE Returns(<<r[Pos(r, Head(arg_new_columns))]>> \o rest.row)

\* lines 68-69 on one header field: the pairs in list order, each on the
\* outcome of the one before
RECURSIVE RenameColumn(_, _)
RenameColumn(col, arg_column_renames) ==
    IF arg_column_renames = <<>> THEN col
    ELSE RenameColumn(Replace(col, Head(arg_column_renames)[1],
                              Head(arg_column_renames)[2]),
                      Tail(arg_column_renames))

\* lines 66-72
rename_columns(r, arg_column_renames) ==
    [i \in 1..Len(r) |-> RenameColumn(r[i], arg_column_renames)]

\* the source column is cleared in place of the target column
CollapsePair_ClearSource(r, pair) ==
    IF ~InRange(r, pair[1]) \/ ~InRange(r, pair[2]) THEN IndexError
    ELSE Returns([r EXCEPT ![Pos(r, pair[1])] =
                     IF r[Pos(r, pair[1])] = r[Pos(r, pair[2])] THEN <<>> ELSE @])

\* line 86: row[pair[1]] = "" if (row[pair[0]] == row[pair[1]]) else row[pair[1]]
CollapsePair(r, pair) ==
    IF ~InRange(r, pair[1]) \/ ~InRange(r, pair[2]) THEN IndexError
    ELSE Returns([r EXCEPT ![Pos(r, pair[2])] =
                     IF r[Pos(r, pair[1])] = r[Pos(r, pair[2])] THEN <<>> ELSE @])

\* lines 85-88: the pairs one after another on the same list
RECURSIVE collapse_columns(_, _)
collapse_columns(r, column_collapse_pairs) ==
    IF column_collapse_pairs = <<>> THEN Returns(r)
    ELSE LET one == CollapsePair(r, Head(column_collapse_pairs)) IN
         IF one.err THEN IndexError
         ELSE collapse_columns(one.row, Tail(column_collapse_pairs))

---------------------------------------------------------------------------
(* The csv writer, the text file between the two passes, and csv_sort.     *)

RECURSIVE DoubleQuotes(_)
DoubleQuotes(s) ==
    IF s = <<>> THEN <<>>
    ELSE (IF Head(s) = QUOTE THEN <<QUOTE, QUOTE>> ELSE <<Head(s)>>)
         \o DoubleQuotes(Tail(s))

\* a field as the excel dialect writes it: quoted when it holds the delimiter,
\* the quote character or a character of the line terminator
WriteField(f) ==
    IF \E i \in 1..Len(f) : f[i] \in {COMMA, QUOTE, CR, NL}
    THEN <<QUOTE>> \o DoubleQuotes(f) \o <<QUOTE>>
    ELSE f

RECURSIVE JoinFields(_)
JoinFields(r) ==
    IF r = <<>> THEN <<>>
    ELSE IF Len(r) = 1 THEN WriteField(r[1])
    ELSE WriteField(r[1]) \o <<COMMA>> \o JoinFields(Tail(r))

\* writer.writerow(r): the fields joined by ',', then "\r\n"; a row of one
\* empty field is written as ""
WriteRow(r) ==
    (IF r = << <<>> >> THEN <<QUOTE, QUOTE>> ELSE JoinFields(r)) \o <<CR, NL>>

\* read_file.readlines() of a file opened in text mode: "\r\n" and "\r" are
\* read as "\n", and each line keeps its "\n"
RECURSIVE ReadLinesFrom(_, _)
ReadLinesFrom(text, cur) ==
    IF text = <<>> THEN (IF cur = <<>> THEN <<>> ELSE <<cur>>)
    ELSE IF Head(text) = CR
    THEN <<cur \o <<NL>>>> \o
         ReadLinesFrom(IF Len(text) > 1 /\ text[2] = NL
                       THEN SubSeq(text, 3, Len(text)) ELSE Tail(text), <<>>)
    ELSE IF Head(text) = NL
    THEN <<cur \o <<NL>>>> \o ReadLinesFrom(Tail(text), <<>>)
    ELSE ReadLinesFrom(Tail(text), cur \o <<Head(text)>>)

ReadLines(text) == ReadLinesFrom(text, <<>>)

\* x goes after the lines that are not greater than it (not smaller, when
\* rev), which keeps equal lines in their order
RECURSIVE Insert(_, _, _)
Insert(x, lines, rev) ==
    IF lines = <<>> THEN <<x>>
    ELSE IF (IF rev THEN StrLess(Head(lines), x) ELSE StrLess(x, Head(lines)))
         THEN <<x>> \o lines
         ELSE <<Head(lines)>> \o Insert(x, Tail(lines), rev)

RECURSIVE SortFrom(_, _, _)
SortFrom(lines, acc, rev) ==
    IF lines = <<>> THEN acc
    ELSE SortFrom(Tail(lines), Insert(Head(lines), acc, rev), rev)

\* the direction is ignored
sorted_Ascending(lines, rev) == SortFrom(lines, <<>>, FALSE)

\* sorted(lines, reverse=rev)
sorted(lines, rev) == SortFrom(lines, <<>>, rev)

\* every line is sorted, the header among them
SortRows_HeaderIncluded(rows, rev) == sorted(rows, rev)

\* line 97: rows = [rows[0]] + sorted(rows[1:], reverse=reverse)
SortRows(rows, rev) == <<rows[1]>> \o sorted(Tail(rows), rev)

---------------------------------------------------------------------------
(* The per-record work of do_csv_normalize.                                *)

\* the header's fields are normalized like a data row's
HeaderTransform_Normalized(r, opts) ==
    LET normal == [i \in 1..Len(r) |-> NormalizeColumn(r[i])]
        renamed == IF "column_renames" \in opts.keys
                   THEN rename_columns(normal, opts.column_renames) ELSE normal
    IN  IF "new_columns" \in opts.keys
        THEN reorder_columns_in_row(renamed, opts.new_columns)
        ELSE Returns(renamed)

\* lines 162-165: the row written for the header record
HeaderTransform(r, opts) ==
    LET renamed == IF "column_renames" \in opts.keys
                   THEN rename_columns(r, opts.column_renames) ELSE r
    IN  IF "new_columns" \in opts.keys
        THEN reorder_columns_in_row(renamed, opts.new_columns)
        ELSE Returns(renamed)

\* the columns are collapsed before they are normalized
DataTransform_CollapseFirst(r, opts) ==
    LET collapsed == IF "column_collapse_pairs" \in opts.keys
                     THEN collapse_columns(r, opts.column_collapse_pairs)
                     ELSE Returns(r)
        new_row == [i \in 1..Len(r) |-> NormalizeColumn(collapsed.row[i])]
    IN  IF collapsed.err THEN IndexError
        ELSE IF "new_columns" \in opts.keys
        THEN reorder_columns_in_row(new_row, opts.new_columns)
        ELSE Returns(new_row)

\* lines 134-159: the row written for a data record
DataTransform(r, opts) ==
    LET new_row == [i \in 1..Len(r) |-> NormalizeColumn(r[i])]
        collapsed == IF "column_collapse_pairs" \in opts.keys
                     THEN collapse_columns(new_row, opts.column_collapse_pairs)
                     ELSE Returns(new_row)
    IN  IF collapsed.err THEN IndexError
        ELSE IF "new_columns" \in opts.keys
        THEN reorder_columns_in_row(collapsed.row, opts.new_columns)
        ELSE collapsed

---------------------------------------------------------------------------
(* Values the variables of a specification hold while it does not use them *)

FieldIdle ==
    /\ column = <<>> /\ fpc = "idle" /\ normalized = <<>>
    /\ renormalized = <<>> /\ dated = <<>>

RowIdle ==
    /\ row = <<>> /\ row_op = "idle" /\ row_arg = <<>>
    /\ row_result = [err |-> FALSE, row |-> <<>>] /\ rpc = "idle"

PipeIdle ==
    /\ column_options = [column_renames |-> <<>>, column_collapse_pairs |-> <<>>,
                         new_columns |-> <<>>, keys |-> {}]
    /\ inp = <<>> /\ index = 0 /\ kinds = <<>> /\ written = <<>>
    /\ out_file = <<>> /\ reverse = TRUE /\ sorted_file = <<>> /\ pc = "idle"

---------------------------------------------------------------------------
(* SpecField: one field through the field normalization, twice, and        *)
(* through normalize_date alone.                                           *)

FieldAlphabet == {"0", "1", "-", ".", "/", "a", NL}

\* every text of at most MaxLen characters of FieldAlphabet
ShortFields == UNION { [1..n -> FieldAlphabet] : n \in 0..MaxLen }

DayTexts == { <<"0">>, <<"1">>, <<"0", "0">>, <<"0", "1">>, <<"1", "0">>, <<"1", "1">> }
YearTexts == { <<"2", "0", "2", "0">>, <<"1", "9", "9", "9">> }

\* month/day/year and year-month-day texts, with and without a final newline
DateFields ==
    { (IF f[1] = "slash"
       THEN f[2] \o <<"/">> \o f[3] \o <<"/">> \o f[4]
       ELSE f[4] \o <<"-">> \o f[2] \o <<"-">> \o f[3]) \o f[5] :
      f \in {"slash", "iso"} \X DayTexts \X DayTexts \X YearTexts \X {<<>>, <<NL>>} }

\* the fields the source's comments and the documentation use as examples
ExampleFields ==
    { <<"1", "2", ".", "5", "0", "0">>, <<"1", "2", ".", "5", "0">>,
      <<"-", "4", ".", "2", "0">>, <<"-", "4", ".", "0", "0">>,
      <<"0", "1", "/", "0", "2", "/", "2", "0", "2", "0">>,
      <<"2", "0", "2", "0", "-", "0", "1", "-", "0", "2">>,
      <<"h", "e", "l", "l", "o">> }

FieldInputs == ShortFields \cup DateFields \cup ExampleFields

InitField ==
    /\ column \in FieldInputs
    /\ fpc = "start"
    /\ normalized = <<>> /\ renormalized = <<>> /\ dated = <<>>
    /\ RowIdle /\ PipeIdle

\* lines 135-154 on one column of a data row
NormalizeOnce ==
    /\ fpc = "start"
    /\ normalized' = NormalizeColumn(column)
    /\ fpc' = "once"
    /\ UNCHANGED <<column, renormalized, dated, rowVars, pipeVars>>

\* the same lines on the text they produced
NormalizeTwice ==
    /\ fpc = "once"
    /\ renormalized' = NormalizeColumn(normalized)
    /\ fpc' = "twice"
    /\ UNCHANGED <<column, normalized, dated, rowVars, pipeVars>>

\* normalize_date called on the field itself
CallNormalizeDate ==
    /\ fpc = "start"
    /\ dated' = normalize_date(column)
    /\ fpc' = "dated"
    /\ UNCHANGED <<column, normalized, renormalized, rowVars, pipeVars>>

NextField == NormalizeOnce \/ NormalizeTwice \/ CallNormalizeDate

SpecField == InitField /\ [][NextField]_vars

---------------------------------------------------------------------------
(* Shapes the claims about fields speak of.                                *)

LastChar(s) == s[Len(s)]

\* optional '-', one or more digits, '.', zero or more digits, last character '0'
IsTrailingZeroDecimal(d) == d # <<>> /\ LastChar(d) = "0" /\ MatchDecimal(d)

PointAt(d) == CHOOSE p \in 1..Len(d) : d[p] = "."

\* the digits after the point are all zeros and the digit before it is a zero
IsRoundTens(d) ==
    /\ \A i \in (PointAt(d) + 1)..Len(d) : d[i] = "0"
    /\ d[PointAt(d) - 1] = "0"

HasPoint(s) == \E i \in 1..Len(s) : s[i] = "."

\* digits/digits/4-digit year or 4-digit year-digits-digits, as the whole field
IsDateShape(f) == f # <<>> /\ LastChar(f) # NL /\ (SlashGroups(f) # {} \/ IsoGroups(f) # {})

YearOf(f) ==
    IF SlashGroups(f) # {} THEN (CHOOSE g \in SlashGroups(f) : TRUE)[3]
    ELSE (CHOOSE g \in IsoGroups(f) : TRUE)[1]

\* a non-empty digit string with no leading zero
IsPlainNumber(s) == s # <<>> /\ AllDigits(s) /\ s[1] # "0"

\* M/D/YY with the given two-character year
IsCommonForm(s, yy) ==
    \E p, q \in 1..Len(s) :
        /\ p < q
        /\ s[p] = "/" /\ s[q] = "/"
        /\ IsPlainNumber(SubSeq(s, 1, p - 1))
        /\ IsPlainNumber(SubSeq(s, p + 1, q - 1))
        /\ SubSeq(s, q + 1, Len(s)) = yy

---------------------------------------------------------------------------
(* Claims about the field normalizer.                                      *)

\* C1 as stated: for every field d matching the whole-field decimal pattern
\* (optional '-', digits, '.', digits, last character '0') the normalized
\* text has no trailing '0' and no trailing '.'.
C1_NoTrailingZeroOrPoint ==
    (fpc = "once" /\ IsTrailingZeroDecimal(column)) =>
        (normalized = <<>> \/ LastChar(normalized) \notin {"0", "."})

\* C1 (amended): for every such d the normalized text is not empty, has no
\* trailing '.', and contains no '.' at all when it ends in '0'; it ends in
\* '0' exactly when d's fractional digits are all zeros and the digit before
\* the point is '0' ("10.0" gives "10", "0.0" and "-0.0" give "0").
C1_TrimmedDecimal ==
    (fpc = "once" /\ IsTrailingZeroDecimal(column)) =>
        /\ normalized # <<>>
        /\ LastChar(normalized) # "."
        /\ (LastChar(normalized) = "0" => ~HasPoint(normalized))
        /\ (LastChar(normalized) = "0" <=> IsRoundTens(column))

C1_Witness ==
    /\ fpc = "once"
    /\ column = <<"1", "0", ".", "0">>
    /\ normalized = <<"1", "0">>

\* C3: applying the data-row field normalization twice gives the same text
\* as applying it once, for every field text.
C3_Idempotent == (fpc = "twice") => (renormalized = normalized)

C3_Witness ==
    /\ fpc = "twice"
    /\ column = <<"-", "0", ".", "0">>
    /\ normalized = <<"0">>
    /\ renormalized = <<"0">>

\* C8: for every field matching a recognized date shape as a whole field,
\* normalize_date returns M/D/YY (month and day non-empty digit strings with
\* no leading zero, then the last two characters of the year); a field
\* matching neither shape is returned unchanged.
C8_CommonDateForm ==
    (fpc = "dated") =>
        IF IsDateShape(column)
        THEN IsCommonForm(dated, SubSeq(YearOf(column), 3, 4))
        ELSE dated = column

---------------------------------------------------------------------------
(* SpecRow: one row through collapse_columns with one pair, or through     *)
(* reorder_columns_in_row with a list of indices.                          *)

CellValues == { <<>>, <<"a">>, <<"b">> }

\* every row of at most MaxCols cells
SmallRows == UNION { [1..n -> CellValues] : n \in 0..MaxCols }

\* the indices: every position of the widest row, from either end, and one
\* beyond each end
IndexPool == (-(MaxCols + 1))..MaxCols

IndexLists == UNION { [1..n -> IndexPool] : n \in 0..MaxProj }

InitRow ==
    /\ row \in SmallRows
    /\ \/ row_op = "collapse" /\ row_arg \in { <<p>> : p \in IndexPool \X IndexPool }
       \/ row_op = "reorder" /\ row_arg \in IndexLists
    /\ row_result = Returns(<<>>)
    /\ rpc = "start"
    /\ FieldIdle /\ PipeIdle

CallCollapse ==
    /\ rpc = "start" /\ row_op = "collapse"
    /\ row_result' = collapse_columns(row, row_arg)
    /\ rpc' = "done"
    /\ UNCHANGED <<row, row_op, row_arg, fieldVars, pipeVars>>

CallReorder ==
    /\ rpc = "start" /\ row_op = "reorder"
    /\ row_result' = reorder_columns_in_row(row, row_arg)
    /\ rpc' = "done"
    /\ UNCHANGED <<row, row_op, row_arg, fieldVars, pipeVars>>

NextRow == CallCollapse \/ CallReorder

SpecRow == InitRow /\ [][NextRow]_vars

---------------------------------------------------------------------------
(* Claims about the row transformers.                                      *)

\* a zero-based position of the row
IsPosition(r, i) == i \in 0..(Len(r) - 1)

CollapseDone == rpc = "done" /\ row_op = "collapse"
PairSource == row_arg[1][1]
PairTarget == row_arg[1][2]

\* the parts of the collapse law that do not speak of when the target is cleared
CollapseFrame ==
    /\ ~row_result.err
    /\ Len(row_result.row) = Len(row)
    /\ \/ row_result.row[PairTarget + 1] = <<>>
       \/ row_result.row[PairTarget + 1] = row[PairTarget + 1]
    /\ \A i \in 1..Len(row) :
           i # PairTarget + 1 => row_result.row[i] = row[i]

\* C2 as stated: after collapse_columns(r, [(s,t)]) with both indices in
\* range, r'[t] is "" or r[t], every other position is unchanged, and
\* r'[t] is "" if and only if the original r[s] equals r[t].
C2_CollapseLaw ==
    (CollapseDone /\ IsPosition(row, PairSource) /\ IsPosition(row, PairTarget)) =>
        /\ CollapseFrame
        /\ (row_result.row[PairTarget + 1] = <<>>
              <=> row[PairSource + 1] = row[PairTarget + 1])

\* C2 (amended): as stated, except that r'[t] is "" if and only if the
\* original r[s] equals r[t] or the original r[t] is already "".
C2_CollapseLawAmended ==
    (CollapseDone /\ IsPosition(row, PairSource) /\ IsPosition(row, PairTarget)) =>
        /\ CollapseFrame
        /\ (row_result.row[PairTarget + 1] = <<>>
              <=> (\/ row[PairSource + 1] = row[PairTarget + 1]
                   \/ row[PairTarget + 1] = <<>>))

C2_Witness ==
    /\ CollapseDone
    /\ row = << <<"a">>, <<>> >>
    /\ row_arg = << <<0, 1>> >>
    /\ row_result = Returns(<< <<"a">>, <<>> >>)

\* the indices the call was given
UsedIndices ==
    IF row_op = "collapse" THEN {PairSource, PairTarget}
    ELSE { row_arg[k] : k \in 1..Len(row_arg) }

\* C7: whenever a projection index or a collapse-pair index is not a
\* zero-based position of the row (negative integers included), the
\* operation fails with an index error and the index is never redirected to
\* another column.
C7_AbsentIndexFails ==
    (rpc = "done" /\ \E i \in UsedIndices : ~IsPosition(row, i)) => row_result.err

---------------------------------------------------------------------------
(* Spec: do_csv_normalize. The reader yields up to MaxRows records drawn   *)
(* from RowPool, under options drawn from the pools below; csv_sort then   *)
(* sorts the file written, with reverse=True.                              *)

Name1 == <<"N", "a", "m", "e", "1">>
Name2 == <<"N", "a", "m", "e", "2">>
Amount == <<"A", "m", "o", "u", "n", "t">>
Date == <<"D", "a", "t", "e">>
First == <<"F", "i", "r", "s", "t">>
Last == <<"L", "a", "s", "t">>
Alice == <<"A", "l", "i", "c", "e">>

ExHeader == <<Name1, Name2, Amount, Date>>
ExData == <<Alice, Alice, <<"1", "2", ".", "5", "0">>, <<"0", "1", "/", "0", "2", "/", "2", "0", "2", "0">>>>
ExRenames == << <<Name1, First>>, <<Name2, Last>> >>

\* the second pair acts on what the first pair made of the field
ChainedRenames == << <<<<"N", "a", "m", "e">>, <<"N">>>>, <<<<"N", "1">>, <<"i", "d">>>> >>

RowPool ==
    { ExHeader,
      ExData,
      << <<"1", ".", "0">>, <<"1">>, <<"-", "0">> >>,
      << <<"a">>, <<"a">>, <<"a">> >>,
      << <<"b">> >>,
      << <<"d", COMMA, "c">>, <<"b", NL, "a">> >>,
      << >> }

RenamePool == { ExRenames, ChainedRenames }
CollapsePool == { << <<0, 1>> >>, << <<0, 1>>, <<1, 2>> >> }
ProjectionPool == { <<0, 2, 3>>, <<1, 0>>, << >> }

\* the dict column_options: keys holds the keys present
OptionPool ==
    { [keys |-> k,
       column_renames |-> IF "column_renames" \in k THEN rn ELSE <<>>,
       column_collapse_pairs |-> IF "column_collapse_pairs" \in k THEN cp ELSE <<>>,
       new_columns |-> IF "new_columns" \in k THEN nc ELSE <<>>] :
      <<k, rn, cp, nc>> \in
          (SUBSET {"column_renames", "column_collapse_pairs", "new_columns"})
          \X RenamePool \X CollapsePool \X ProjectionPool }

Init ==
    /\ column_options \in OptionPool
    /\ inp = <<>> /\ index = 0 /\ kinds = <<>> /\ written = <<>>
    /\ out_file = <<>>
    /\ reverse = TRUE
    /\ sorted_file = <<>>
    /\ pc = "loop"
    /\ FieldIdle /\ RowIdle

\* a data record is not written when it repeats the record written before it
DataRow_SkipRepeated ==
    /\ pc = "loop" /\ index # 0 /\ index < MaxRows
    /\ \E r \in RowPool :
         LET new_row == DataTransform(r, column_options) IN
         /\ inp' = Append(inp, r)
         /\ kinds' = Append(kinds, "DATA")
         /\ IF new_row.err
            THEN pc' = "error" /\ UNCHANGED <<index, written, out_file>>
            ELSE /\ index' = index + 1
                 /\ IF new_row.row = written[Len(written)]
                    THEN UNCHANGED <<written, out_file>>
                    ELSE /\ written' = Append(written, new_row.row)
                         /\ out_file' = out_file \o WriteRow(new_row.row)
                 /\ pc' = pc
    /\ UNCHANGED <<column_options, reverse, sorted_file, fieldVars, rowVars>>

\* lines 131, 161-166: the first record the reader yields (index == 0)
HeaderRow ==
    /\ pc = "loop" /\ index = 0 /\ index < MaxRows
    /\ \E r \in RowPool :
         LET new_row == HeaderTransform(r, column_options) IN
         /\ inp' = Append(inp, r)
         /\ kinds' = Append(kinds, "HEADER")
         /\ IF new_row.err
            THEN pc' = "error" /\ UNCHANGED <<index, written, out_file>>
            ELSE /\ index' = index + 1
                 /\ written' = Append(written, new_row.row)
                 /\ out_file' = out_file \o WriteRow(new_row.row)
                 /\ pc' = pc
    /\ UNCHANGED <<column_options, reverse, sorted_file, fieldVars, rowVars>>

\* lines 131-160: a later record (index != 0)
DataRow ==
    /\ pc = "loop" /\ index # 0 /\ index < MaxRows
    /\ \E r \in RowPool :
         LET new_row == DataTransform(r, column_options) IN
         /\ inp' = Append(inp, r)
         /\ kinds' = Append(kinds, "DATA")
         /\ IF new_row.err
            THEN pc' = "error" /\ UNCHANGED <<index, written, out_file>>
            ELSE /\ index' = index + 1
                 /\ written' = Append(written, new_row.row)
                 /\ out_file' = out_file \o WriteRow(new_row.row)
                 /\ pc' = pc
    /\ UNCHANGED <<column_options, reverse, sorted_file, fieldVars, rowVars>>

\* the reader is exhausted: the with block of line 123 ends
EndOfInput ==
    /\ pc = "loop"
    /\ pc' = "sort"
    /\ UNCHANGED <<column_options, inp, index, kinds, written, out_file, reverse,
                   sorted_file, fieldVars, rowVars>>

\* lines 95-99: csv_sort(out, out_sorted, reverse); rows[0] raises IndexError
\* on a file without lines
CsvSort ==
    /\ pc = "sort"
    /\ LET rows == ReadLines(out_file) IN
       IF rows = <<>>
       THEN pc' = "error" /\ UNCHANGED sorted_file
       ELSE pc' = "done" /\ sorted_file' = SortRows(rows, reverse)
    /\ UNCHANGED <<column_options, inp, index, kinds, written, out_file, reverse,
                   fieldVars, rowVars>>

Next == HeaderRow \/ DataRow \/ EndOfInput \/ CsvSort

Spec == Init /\ [][Next]_vars

---------------------------------------------------------------------------
(* SpecSort: csv_sort on a file of up to MaxLines lines as the csv writer  *)
(* terminates them, in either direction.                                   *)

LinePool == { <<"a">>, <<"b">>, <<"c">>, <<"d">>, <<"a", COMMA, "b">> }

RECURSIVE Flatten(_)
Flatten(ss) == IF ss = <<>> THEN <<>> ELSE Head(ss) \o Flatten(Tail(ss))

UnsortedFiles ==
    { Flatten([i \in 1..Len(ls) |-> ls[i] \o <<CR, NL>>]) :
      ls \in UNION { [1..n -> LinePool] : n \in 0..MaxLines } }

InitSort ==
    /\ column_options = [column_renames |-> <<>>, column_collapse_pairs |-> <<>>,
                         new_columns |-> <<>>, keys |-> {}]
    /\ inp = <<>> /\ index = 0 /\ kinds = <<>> /\ written = <<>>
    /\ out_file \in UnsortedFiles
    /\ reverse \in BOOLEAN
    /\ sorted_file = <<>>
    /\ pc = "sort"
    /\ FieldIdle /\ RowIdle

NextSort == CsvSort

SpecSort == InitSort /\ [][NextSort]_vars

---------------------------------------------------------------------------
(* Claims about csv_sort (SpecSort).                                       *)

\* the lines of the unsorted file, and the lines written after the header
UnsortedRows == ReadLines(out_file)
SortedData == Tail(sorted_file)

Count(x, ss) == Cardinality({ i \in 1..Len(ss) : ss[i] = x })
Elements(ss) == { ss[i] : i \in 1..Len(ss) }

LineA == <<"a", NL>>
LineB == <<"b", NL>>
LineC == <<"c", NL>>
LineD == <<"d", NL>>

---------------------------------------------------------------------------
(* Claims about do_csv_normalize (Spec).                                   *)

Has(key) == key \in column_options.keys

NormalizedRow(r) == [i \in 1..Len(r) |-> NormalizeColumn(r[i])]

\* rename, then project; a step that is not configured is the identity
ExpectedHeader(r) ==
    LET renamed == IF Has("column_renames")
                   THEN rename_columns(r, column_options.column_renames) ELSE r
    IN  IF Has("new_columns")
        THEN reorder_columns_in_row(renamed, column_options.new_columns)
        ELSE Returns(renamed)

\* normalize every field, then collapse, then project; a step that is not
\* configured is the identity
ExpectedData(r) ==
    LET collapsed == IF Has("column_collapse_pairs")
                     THEN collapse_columns(NormalizedRow(r),
                                           column_options.column_collapse_pairs)
                     ELSE Returns(NormalizedRow(r))
    IN  IF collapsed.err \/ ~Has("new_columns") THEN collapsed
        ELSE reorder_columns_in_row(collapsed.row, column_options.new_columns)

ExpectedRecord(k) == IF k = 1 THEN ExpectedHeader(inp[k]) ELSE ExpectedData(inp[k])

RECURSIVE FileText(_)
FileText(records) ==
    IF records = <<>> THEN <<>>
    ELSE WriteRow(Head(records)) \o FileText(Tail(records))

\* C6: while the run has not failed, the unsorted output holds exactly one
\* record per record read, in the order read: the k-th record written is the
\* transform of the k-th record read, none skipped, repeated or moved.
C6_OneRecordPerInput ==
    (pc \in {"loop", "sort", "done"}) =>
        /\ Len(written) = Len(inp)
        /\ index = Len(inp)
        /\ \A k \in 1..Len(inp) :
               ~ExpectedRecord(k).err /\ written[k] = ExpectedRecord(k).row
        /\ out_file = FileText(written)

\* three records read, the last two alike, and three records written
C6_Witness ==
    /\ pc = "done"
    /\ Len(inp) = 3
    /\ inp[2] = inp[3]
    /\ Len(written) = 3
    /\ written[2] = written[3]

DecimalRow == << <<"1", ".", "0">>, <<"1">>, <<"-", "0">> >>

\* C9: the first record, and only the first, takes the header branch; it is
\* written as rename-then-project of the record read, its fields never
\* normalized or collapsed; no later record is renamed.
C9_HeaderOnlyFirst ==
    /\ \A k \in 1..Len(kinds) : kinds[k] = IF k = 1 THEN "HEADER" ELSE "DATA"
    /\ Len(kinds) \in {index, index + 1}
    /\ Len(written) >= 1 => written[1] = ExpectedHeader(inp[1]).row
    /\ \A k \in 2..Len(written) :
           (~Has("column_collapse_pairs") /\ ~Has("new_columns")) =>
               written[k] = NormalizedRow(inp[k])

\* a header that looks like numbers is written as read, the same record is
\* normalized when it comes second
C9_Witness ==
    /\ column_options.keys = {}
    /\ Len(written) >= 2
    /\ inp[1] = DecimalRow /\ written[1] = DecimalRow
    /\ inp[2] = DecimalRow /\ written[2] = << <<"1">>, <<"1">>, <<"0">> >>

ExOptions ==
    [keys |-> {"column_renames", "column_collapse_pairs", "new_columns"},
     column_renames |-> ExRenames,
     column_collapse_pairs |-> << <<0, 1>> >>,
     new_columns |-> <<0, 2, 3>>]

ExWrittenHeader == <<First, Amount, Date>>
ExWrittenData == <<Alice, <<"1", "2", ".", "5">>, <<"1", "/", "2", "/", "2", "0">>>>

\* C10: every data record is written as normalize-every-field, then
\* collapse, then project. Collapse compares the normalized values ("1.0"
\* and "1" count as equal), a later pair sees the cell an earlier pair
\* cleared, and the documented scenario gives First,Amount,Date and
\* Alice,12.5,1/2/20.
C10_NormalizeCollapseProject ==
    /\ \A k \in 2..Len(written) : written[k] = ExpectedData(inp[k]).row
    /\ \A k \in 2..Len(written) :
           (column_options.keys = {"column_collapse_pairs"} /\ inp[k] = DecimalRow) =>
               written[k] = << <<"1">>, <<>>, <<"0">> >>
    /\ \A k \in 2..Len(written) :
           (/\ column_options.keys = {"column_collapse_pairs"}
            /\ column_options.column_collapse_pairs = << <<0, 1>>, <<1, 2>> >>
            /\ inp[k] = << <<"a">>, <<"a">>, <<"a">> >>) =>
               written[k] = << <<"a">>, <<>>, <<"a">> >>
    /\ (column_options = ExOptions /\ Len(written) = 2 /\ inp = <<ExHeader, ExData>>) =>
           /\ written = <<ExWrittenHeader, ExWrittenData>>
           /\ out_file = First \o <<COMMA>> \o Amount \o <<COMMA>> \o Date \o <<CR, NL>>
                         \o Alice \o <<COMMA>> \o <<"1", "2", ".", "5">> \o <<COMMA>>
                         \o <<"1", "/", "2", "/", "2", "0">> \o <<CR, NL>>

C10_Witness ==
    /\ pc = "done"
    /\ column_options = ExOptions
    /\ inp = <<ExHeader, ExData>>
    /\ written = <<ExWrittenHeader, ExWrittenData>>

====
